---- MODULE Spec2Model ----
(***************************************************************************)
(* Item CRUD service of src/api/index.ts: five Fastify handlers over the   *)
(* PostgreSQL table "items", each issuing at most one parameterized        *)
(* statement through pool.query and answering with one reply.              *)
(*                                                                         *)
(* JavaScript values are tagged records so that undefined, null and the    *)
(* empty string stay apart.  Path identifiers are sequences of one         *)
(* character strings, so that parseInt is computed character by character. *)
(***************************************************************************)
EXTENDS Integers, Sequences, FiniteSets, TLC

VARIABLES
    items,        \* rows of the table "items": a set of [id, name, description]
    seq,          \* last value handed out by the id sequence of the table
    alive,        \* FALSE once process.exit(1) has run
    req,          \* the request being answered, NoReq between requests
    replies,      \* the replies sent for req, in order
    queries,      \* number of pool.query calls made for req
    rejected,     \* the error pool.query rejected with for req, NoFault if none
    returnedIds,  \* ids carried by the 201 replies sent so far
    deletedIds,   \* ids whose DELETE was answered 200 so far
    isServerReady, \* the flag of the serverless entry point
    router,       \* plugin loading of the Fastify instance: what ready() waits for
    calls,        \* where each invocation of the serverless entry point stands
    emitted,      \* per invocation, the 'request' events it emitted to the router
    puts          \* PUT /items/:id handlers running side by side

itemVars == <<items, seq, alive, req, replies, queries, rejected, returnedIds, deletedIds>>
adapterVars == <<isServerReady, router, calls, emitted>>
vars == <<itemVars, adapterVars, puts>>

------------------------------------------------------------------------------
(* Bounds of the model *)

\* inserts attempted against the id sequence
MaxSeq == 2
\* characters in a path identifier
MaxIdLen == 2
\* invocations of the serverless entry point
MaxRequests == 4

------------------------------------------------------------------------------
(* JavaScript values *)

Undefined == [kind |-> "undefined", val |-> ""]
Null == [kind |-> "null", val |-> ""]
Str(s) == [kind |-> "string", val |-> s]

\* ToBoolean on the values a body field can hold: undefined, null and "" are falsy
Truthy(v) == v.kind = "string" /\ v.val # ""

\* a || b
OrElse(a, b) == IF Truthy(a) THEN a ELSE b

------------------------------------------------------------------------------
(* parseInt(string, 10) *)

Digits == {"0", "1", "2", "3", "4", "5", "6", "7", "8", "9"}
WhiteSpace == {" "}

DigitVal(c) ==
    CASE c = "0" -> 0 [] c = "1" -> 1 [] c = "2" -> 2 [] c = "3" -> 3
      [] c = "4" -> 4 [] c = "5" -> 5 [] c = "6" -> 6 [] c = "7" -> 7
      [] c = "8" -> 8 [] c = "9" -> 9

RECURSIVE TrimStart(_)
TrimStart(s) ==
    IF s # <<>> /\ Head(s) \in WhiteSpace THEN TrimStart(Tail(s)) ELSE s

\* the longest prefix of s made of decimal digits
RECURSIVE DigitPrefix(_)
DigitPrefix(s) ==
    IF s # <<>> /\ Head(s) \in Digits
    THEN <<Head(s)>> \o DigitPrefix(Tail(s))
    ELSE <<>>

RECURSIVE DigitsValue(_, _)
DigitsValue(ds, acc) ==
    IF ds = <<>> THEN acc
    ELSE DigitsValue(Tail(ds), 10 * acc + DigitVal(Head(ds)))

\* leading white space is skipped, one sign is read, then the longest run of
\* digits; whatever follows the digits is ignored; no digit at all gives NaN
ParseInt(s) ==
    LET t == TrimStart(s)
        signed == t # <<>> /\ Head(t) \in {"-", "+"}
        sign == IF t # <<>> /\ Head(t) = "-" THEN -1 ELSE 1
        body == IF signed THEN Tail(t) ELSE t
        ds == DigitPrefix(body)
    IN  IF ds = <<>>
        THEN [isNaN |-> TRUE, val |-> 0]
        ELSE [isNaN |-> FALSE, val |-> sign * DigitsValue(ds, 0)]

------------------------------------------------------------------------------
(* Requests *)

IdChars == {"1", "2", "a"}

RECURSIVE StringsOfLen(_)
StringsOfLen(n) ==
    IF n = 0 THEN {<<>>}
    ELSE {<<c>> \o s : c \in IdChars, s \in StringsOfLen(n - 1)}

\* the :id path parameter, a non-empty string
IdStrings == UNION {StringsOfLen(n) : n \in 1..MaxIdLen}

\* CreateItemDto / UpdateItemDto as the body schemas admit them: name is a
\* string when present, description a string or null when present
BodyNames == {Undefined, Str(""), Str("a")}
BodyDescriptions == {Undefined, Null, Str(""), Str("x")}
Bodies == [name : BodyNames, description : BodyDescriptions]

NoBody == [name |-> Undefined, description |-> Undefined]
NoReq == [op |-> "none", id |-> <<>>, body |-> NoBody]

\* pool.query either resolves or rejects with an error carrying a message
NoFault == [failed |-> FALSE, message |-> ""]
Faults == {NoFault, [failed |-> TRUE, message |-> "connection terminated"]}

Reply(status, kind, body) == [status |-> status, kind |-> kind, body |-> body]

------------------------------------------------------------------------------
(* The table "items" behind pool.query *)

Row(id, name, description) == [id |-> id, name |-> name, description |-> description]

\* the value the id column defaults to on insert
NextId(sq) == sq + 1

\* rows of a set in ascending order of id
RECURSIVE OrderByIdAsc(_)
OrderByIdAsc(rows) ==
    IF rows = {} THEN <<>>
    ELSE LET first == CHOOSE r \in rows : \A o \in rows : r.id <= o.id
         IN  <<first>> \o OrderByIdAsc(rows \ {first})

\* DbInsert with the id computed from the number of rows instead of drawn
\* from the sequence
DbInsert_countId(tbl, sq, values) ==
    LET row == Row(Cardinality(tbl) + 1, values[1], values[2])
    IN  [table |-> tbl \cup {row}, seq |-> NextId(sq), rows |-> <<row>>]

\* INSERT INTO items (name, description) VALUES ($1, $2) RETURNING *
DbInsert(tbl, sq, values) ==
    LET row == Row(NextId(sq), values[1], values[2])
    IN  [table |-> tbl \cup {row}, seq |-> NextId(sq), rows |-> <<row>>]

\* DbSelectAll without its ORDER BY: the rows come back newest first
RECURSIVE OrderByIdDesc(_)
OrderByIdDesc(rows) ==
    IF rows = {} THEN <<>>
    ELSE LET first == CHOOSE r \in rows : \A o \in rows : r.id >= o.id
         IN  <<first>> \o OrderByIdDesc(rows \ {first})

DbSelectAll_unordered(tbl) == OrderByIdDesc(tbl)

\* SELECT * FROM items ORDER BY id ASC
DbSelectAll(tbl) == OrderByIdAsc(tbl)

\* SELECT * FROM items WHERE id = $1
DbSelectById(tbl, values) == OrderByIdAsc({r \in tbl : r.id = values[1]})

\* the row after SET updates[1] = values[1], ..., in the order written
RECURSIVE ApplySet(_, _, _, _)
ApplySet(row, updates, values, k) ==
    IF k > Len(updates) THEN row
    ELSE ApplySet([row EXCEPT ![updates[k]] = values[k]], updates, values, k + 1)

\* UPDATE items SET <updates> WHERE id = $paramIndex RETURNING *
DbUpdate(tbl, updates, values, paramIndex) ==
    LET hit == {r \in tbl : r.id = values[paramIndex]}
        new == {ApplySet(r, updates, values, 1) : r \in hit}
    IN  [table |-> (tbl \ hit) \cup new, rows |-> OrderByIdAsc(new)]

\* DbDelete without its WHERE clause
DbDelete_noWhere(tbl, values) ==
    [table |-> {}, rowCount |-> Cardinality(tbl)]

\* DELETE FROM items WHERE id = $1
DbDelete(tbl, values) ==
    LET hit == {r \in tbl : r.id = values[1]}
    IN  [table |-> tbl \ hit, rowCount |-> Cardinality(hit)]

------------------------------------------------------------------------------
(* Handlers.  Each takes the request, the table, the id sequence and the    *)
(* outcome of its pool.query call, and yields the table and sequence it     *)
(* leaves, the replies it sends, the number of pool.query calls it makes    *)
(* and the error it caught.                                                 *)

Outcome(tbl, sq, sent, n, fault) ==
    [items |-> tbl, seq |-> sq, replies |-> sent, queries |-> n, rejected |-> fault]

\* reply.status(400).send({ error: ... }); return;  -- before any query
BadRequest(tbl, sq, text) ==
    Outcome(tbl, sq, <<Reply(400, "error", <<text>>)>>, 0, NoFault)

\* Caught with the statement issued a second time before giving up
Caught_retried(tbl, sq, prefix, fault) ==
    Outcome(tbl, sq, <<Reply(500, "error", <<prefix, fault.message>>)>>, 2, fault)

\* catch (err) { reply.status(500).send({ error: prefix + err.message }) }
Caught(tbl, sq, prefix, fault) ==
    Outcome(tbl, sq, <<Reply(500, "error", <<prefix, fault.message>>)>>, 1, fault)

\* NameMissing testing only for an absent name, so that "" passes
NameMissing_undefinedOnly(body) == body.name = Undefined

\* if (!name)
NameMissing(body) == ~Truthy(body.name)

\* [name, description || null]
InsertValues(body) == <<body.name, OrElse(body.description, Null)>>

\* isNaN(id)
IsNaN(parsed) == parsed.isNaN

\* POST /items.  A rejected INSERT may already have drawn a value from the id
\* sequence (burnt), which the sequence does not give back.
CreateHandler(body, tbl, sq, fault, burnt) ==
    IF NameMissing(body) THEN BadRequest(tbl, sq, "Name is required")
    ELSE IF fault.failed
    THEN Caught(tbl, IF burnt THEN NextId(sq) ELSE sq, "Failed to create item: ", fault)
    ELSE LET result == DbInsert(tbl, sq, InsertValues(body))
         IN  Outcome(result.table, result.seq,
                     <<Reply(201, "item", result.rows[1])>>, 1, NoFault)

\* GET /items
ListHandler(tbl, sq, fault) ==
    IF fault.failed THEN Caught(tbl, sq, "Failed to retrieve items: ", fault)
    ELSE Outcome(tbl, sq, <<Reply(200, "list", DbSelectAll(tbl))>>, 1, NoFault)

\* GET /items/:id
GetHandler(idStr, tbl, sq, fault) ==
    LET id == ParseInt(idStr)
    IN  IF IsNaN(id) THEN BadRequest(tbl, sq, "Invalid item ID")
        ELSE IF fault.failed THEN Caught(tbl, sq, "Failed to retrieve item: ", fault)
        ELSE LET rows == DbSelectById(tbl, <<id.val>>)
             IN  IF Len(rows) = 0
                 THEN Outcome(tbl, sq, <<Reply(404, "error", <<"Item not found">>)>>, 1, NoFault)
                 ELSE Outcome(tbl, sq, <<Reply(200, "item", rows[1])>>, 1, NoFault)

\* BuildUpdate with the description coerced as on create: description || null
BuildUpdate_coerced(body, id) ==
    LET updates1 == IF body.name # Undefined THEN <<"name">> ELSE <<>>
        values1 == IF body.name # Undefined THEN <<body.name>> ELSE <<>>
        updates2 == IF body.description # Undefined
                    THEN Append(updates1, "description") ELSE updates1
        values2 == IF body.description # Undefined
                   THEN Append(values1, OrElse(body.description, Null)) ELSE values1
    IN  [updates |-> updates2,
         values |-> Append(values2, id),
         paramIndex |-> 1 + Len(updates2)]

\* BuildUpdate writing the description column whether or not the body has it
BuildUpdate_allColumns(body, id) ==
    LET updates1 == IF body.name # Undefined THEN <<"name">> ELSE <<>>
        values1 == IF body.name # Undefined THEN <<body.name>> ELSE <<>>
        updates2 == Append(updates1, "description")
        values2 == Append(values1, OrElse(body.description, Null))
    IN  [updates |-> updates2,
         values |-> Append(values2, id),
         paramIndex |-> 1 + Len(updates2)]

\* the SET list and the bound values of the UPDATE, built field by field;
\* paramIndex ends as the placeholder of the id
BuildUpdate(body, id) ==
    LET updates1 == IF body.name # Undefined THEN <<"name">> ELSE <<>>
        values1 == IF body.name # Undefined THEN <<body.name>> ELSE <<>>
        updates2 == IF body.description # Undefined
                    THEN Append(updates1, "description") ELSE updates1
        values2 == IF body.description # Undefined
                   THEN Append(values1, body.description) ELSE values1
    IN  [updates |-> updates2,
         values |-> Append(values2, id),
         paramIndex |-> 1 + Len(updates2)]

\* PUT /items/:id
UpdateHandler(idStr, body, tbl, sq, fault) ==
    LET id == ParseInt(idStr)
        stmt == BuildUpdate(body, id.val)
    IN  IF IsNaN(id) THEN BadRequest(tbl, sq, "Invalid item ID")
        ELSE IF Len(stmt.updates) = 0 THEN BadRequest(tbl, sq, "No update fields provided")
        ELSE IF fault.failed THEN Caught(tbl, sq, "Failed to update item: ", fault)
        ELSE LET result == DbUpdate(tbl, stmt.updates, stmt.values, stmt.paramIndex)
             IN  IF Len(result.rows) = 0
                 THEN Outcome(result.table, sq,
                              <<Reply(404, "error", <<"Item not found">>)>>, 1, NoFault)
                 ELSE Outcome(result.table, sq,
                              <<Reply(200, "item", result.rows[1])>>, 1, NoFault)

\* DELETE /items/:id
DeleteHandler(idStr, tbl, sq, fault) ==
    LET id == ParseInt(idStr)
    IN  IF IsNaN(id) THEN BadRequest(tbl, sq, "Invalid item ID")
        ELSE IF fault.failed THEN Caught(tbl, sq, "Failed to delete item: ", fault)
        ELSE LET result == DbDelete(tbl, <<id.val>>)
             IN  IF result.rowCount = 0
                 THEN Outcome(result.table, sq,
                              <<Reply(404, "error", <<"Item not found">>)>>, 1, NoFault)
                 ELSE Outcome(result.table, sq,
                              <<Reply(200, "message", <<"Item deleted successfully">>)>>,
                              1, NoFault)

------------------------------------------------------------------------------
(* State outside the one-at-a-time specification *)

Requests == 1..MaxRequests

\* let isServerReady = false; no invocation yet, plugins still loading
AdapterInit ==
    /\ isServerReady = FALSE
    /\ router = "loading"
    /\ calls = [r \in Requests |-> [pc |-> "none", awaited |-> FALSE]]
    /\ emitted = [r \in Requests |-> 0]

Putters == {1, 2}

NoPut == [pc |-> "none", id |-> <<>>, body |-> NoBody,
          stmt |-> [updates |-> <<>>, values |-> <<>>, paramIndex |-> 1],
          rows |-> <<>>, rejected |-> NoFault, replies |-> <<>>]

\* no PUT handler running
PutIdle == puts = [p \in Putters |-> NoPut]

------------------------------------------------------------------------------
(* Specification: requests are answered one after the other *)

Init ==
    /\ AdapterInit
    /\ PutIdle
    /\ items = {}
    /\ seq = 0
    /\ alive = TRUE
    /\ req = NoReq
    /\ replies = <<>>
    /\ queries = 0
    /\ rejected = NoFault
    /\ returnedIds = {}
    /\ deletedIds = {}

\* the handler's outcome becomes the state
Answer(request, out) ==
    /\ req' = request
    /\ items' = out.items
    /\ seq' = out.seq
    /\ replies' = out.replies
    /\ queries' = out.queries
    /\ rejected' = out.rejected
    /\ alive' = alive
    /\ UNCHANGED <<adapterVars, puts>>

Ready == alive /\ req = NoReq

CreateItem ==
    \E body \in Bodies, fault \in Faults, burnt \in BOOLEAN :
        /\ Ready
        /\ NameMissing(body) \/ seq < MaxSeq
        /\ \E out \in {CreateHandler(body, items, seq, fault, burnt)} :
               /\ Answer([op |-> "POST", id |-> <<>>, body |-> body], out)
               /\ returnedIds' =
                      IF out.replies[1].status = 201
                      THEN returnedIds \cup {out.replies[1].body.id}
                      ELSE returnedIds
        /\ UNCHANGED deletedIds

ListItems ==
    \E fault \in Faults :
        /\ Ready
        /\ \E out \in {ListHandler(items, seq, fault)} :
               Answer([op |-> "LIST", id |-> <<>>, body |-> NoBody], out)
        /\ UNCHANGED <<returnedIds, deletedIds>>

GetItem ==
    \E idStr \in IdStrings, fault \in Faults :
        /\ Ready
        /\ \E out \in {GetHandler(idStr, items, seq, fault)} :
               Answer([op |-> "GET", id |-> idStr, body |-> NoBody], out)
        /\ UNCHANGED <<returnedIds, deletedIds>>

UpdateItem ==
    \E idStr \in IdStrings, body \in Bodies, fault \in Faults :
        /\ Ready
        /\ \E out \in {UpdateHandler(idStr, body, items, seq, fault)} :
               Answer([op |-> "PUT", id |-> idStr, body |-> body], out)
        /\ UNCHANGED <<returnedIds, deletedIds>>

DeleteItem ==
    \E idStr \in IdStrings, fault \in Faults :
        /\ Ready
        /\ \E out \in {DeleteHandler(idStr, items, seq, fault)} :
               /\ Answer([op |-> "DELETE", id |-> idStr, body |-> NoBody], out)
               /\ deletedIds' =
                      IF out.replies[1].status = 200
                      THEN deletedIds \cup {ParseInt(idStr).val}
                      ELSE deletedIds
        /\ UNCHANGED returnedIds

\* the exchange is over: the reply has gone out and the handler has returned
Complete ==
    /\ alive
    /\ req # NoReq
    /\ req' = NoReq
    /\ replies' = <<>>
    /\ queries' = 0
    /\ rejected' = NoFault
    /\ UNCHANGED <<items, seq, alive, returnedIds, deletedIds>>
    /\ UNCHANGED <<adapterVars, puts>>

\* pool.on('error'): process.exit(1).  The exchange in progress goes with the
\* process; the table and what clients were already told stay.
PoolError ==
    /\ alive
    /\ alive' = FALSE
    /\ req' = NoReq
    /\ replies' = <<>>
    /\ queries' = 0
    /\ rejected' = NoFault
    /\ UNCHANGED <<items, seq, returnedIds, deletedIds>>
    /\ UNCHANGED <<adapterVars, puts>>

Next ==
    \/ CreateItem
    \/ ListItems
    \/ GetItem
    \/ UpdateItem
    \/ DeleteItem
    \/ Complete
    \/ PoolError

Spec == Init /\ [][Next]_vars

------------------------------------------------------------------------------
(* Vocabulary of the properties *)

\* the step in which the handler of operation op answers a request
Handles(op) == req = NoReq /\ req'.op = op

\* the only reply of the request being answered
TheReply == replies[1]

\* the integer a path identifier is read as
IdOf(idStr) == ParseInt(idStr).val

RowsWithId(tbl, id) == {r \in tbl : r.id = id}

\* a string that is an integer in decimal notation: an optional minus sign
\* followed by digits and nothing else
IsIntegerString(s) ==
    LET body == IF s # <<>> /\ Head(s) = "-" THEN Tail(s) ELSE s
    IN  body # <<>> /\ \A k \in 1..Len(body) : body[k] \in Digits

------------------------------------------------------------------------------
(* C1 *)

\* C1: whenever the INSERT of a POST /items with a non-empty name goes
\* through, the request is answered 201 with a body whose name is the
\* submitted name and whose id is an integer that no earlier 201 reply
\* carried, ids of deleted items included.
C1_CreateReturnsFreshId ==
    [][(Handles("POST") /\ Truthy(req'.body.name) /\ ~rejected'.failed)
        => /\ Len(replies') = 1
           /\ replies'[1].status = 201
           /\ replies'[1].body.name = req'.body.name
           /\ replies'[1].body.id \in Int
           /\ replies'[1].body.id \notin returnedIds
           /\ replies'[1].body.id \notin deletedIds]_vars

\* a POST answered 201 after an earlier item was created and deleted
C1_Witness ==
    /\ req.op = "POST"
    /\ Len(replies) = 1
    /\ TheReply.status = 201
    /\ deletedIds # {}
    /\ TheReply.body.id \notin deletedIds

------------------------------------------------------------------------------
(* C2 *)

\* C2: every persisted item has a non-null id and a non-empty name, whatever
\* POST, PUT and DELETE requests were answered before.
C2_PersistedNameNonEmpty ==
    \A r \in items : r.id \in Int /\ r.name.kind = "string" /\ r.name.val # ""

------------------------------------------------------------------------------
(* C3 *)

\* C3 as stated: after a PUT /items/:id the description of the targeted row
\* is its previous value or a string supplied in the body, never a null the
\* row did not hold before.
C3_UpdateNeverStoresNull ==
    [][Handles("PUT")
        => \A r \in RowsWithId(items, IdOf(req'.id)) :
             \A r2 \in RowsWithId(items', IdOf(req'.id)) :
                \/ r2.description = r.description
                \/ /\ r2.description.kind = "string"
                   /\ r2.description = req'.body.description]_vars

\* C3 as amended: after a PUT /items/:id the description of the targeted row
\* is either its previous value or the value the body supplies, a possibly
\* empty string or null; it is the previous value when the body has no
\* description, and it turns null only when the body supplies null.
C3_UpdateStoresSuppliedDescription ==
    [][Handles("PUT")
        => \A r \in RowsWithId(items, IdOf(req'.id)) :
             \A r2 \in RowsWithId(items', IdOf(req'.id)) :
                /\ req'.body.description = Undefined => r2.description = r.description
                /\ r2.description # r.description
                     => r2.description = req'.body.description
                /\ (r2.description = Null /\ r.description # Null)
                     => req'.body.description = Null]_vars

\* a PUT answered 200 whose body supplied description as null
C3_Witness ==
    /\ req.op = "PUT"
    /\ Len(replies) = 1
    /\ TheReply.status = 200
    /\ req.body.description = Null
    /\ TheReply.body.description = Null

------------------------------------------------------------------------------
(* C4 *)

\* C4: the row a POST /items creates has a null description exactly when
\* the body carries no description (omitted or null), and a body whose
\* description is the empty string persists the empty string.
C4_CreateNullIffOmitted ==
    (req.op = "POST" /\ Len(replies) = 1 /\ TheReply.status = 201)
        => \A r \in RowsWithId(items, TheReply.body.id) :
              /\ r.description = Null <=> req.body.description \in {Undefined, Null}
              /\ req.body.description = Str("") => r.description = Str("")

------------------------------------------------------------------------------
(* C5 *)

\* C5: when storage answers, GET /items/:id is answered 400 with no query
\* made if the identifier is not an integer, 404 if it is an integer with no
\* row, and otherwise 200 with exactly the row stored under that id.
C5_GetByIdOutcome ==
    (req.op = "GET" /\ ~rejected.failed)
        => /\ Len(replies) = 1
           /\ IF ~IsIntegerString(req.id)
              THEN TheReply.status = 400 /\ queries = 0
              ELSE IF RowsWithId(items, IdOf(req.id)) = {}
              THEN TheReply.status = 404
              ELSE /\ TheReply.status = 200
                   /\ TheReply.body \in RowsWithId(items, IdOf(req.id))

------------------------------------------------------------------------------
(* C6 *)

\* C6: a PUT /items/:id answered 200 leaves the name of the row unchanged
\* when the body has no name, leaves its description unchanged when the body
\* has no description, never changes its id, sets the fields the body has to
\* the values supplied, and leaves every other row of the table as it was.
C6_UpdateChangesOnlySuppliedFields ==
    [][(Handles("PUT") /\ replies'[1].status = 200)
        => LET id == IdOf(req'.id)
               old == RowsWithId(items, id)
               new == RowsWithId(items', id)
           IN  /\ Cardinality(old) = 1
               /\ Cardinality(new) = 1
               /\ items' \ new = items \ old
               /\ \A r \in old : \A r2 \in new :
                     /\ r2.id = r.id
                     /\ r2.name = IF req'.body.name = Undefined
                                  THEN r.name ELSE req'.body.name
                     /\ r2.description = IF req'.body.description = Undefined
                                         THEN r.description
                                         ELSE req'.body.description
                     /\ replies'[1].body = r2]_vars

\* a PUT answered 200 whose body had a description and no name, on a table
\* that holds another row as well
C6_Witness ==
    /\ req.op = "PUT"
    /\ Len(replies) = 1
    /\ TheReply.status = 200
    /\ req.body.name = Undefined
    /\ req.body.description = Str("x")
    /\ TheReply.body.name = Str("a")
    /\ Cardinality(items) = 2

------------------------------------------------------------------------------
(* C7 *)

\* C7: a POST /items whose name is missing or empty, and a PUT /items/:id
\* whose body has neither name nor description, are answered with one 400
\* reply, make no pool.query call and leave the table as it was.
C7_RejectedNeverReachStorage ==
    [][(\/ Handles("POST") /\ req'.body.name \in {Undefined, Str("")}
        \/ Handles("PUT") /\ req'.body = NoBody)
        => /\ Len(replies') = 1
           /\ replies'[1].status = 400
           /\ queries' = 0
           /\ ~rejected'.failed
           /\ items' = items
           /\ seq' = seq]_vars

\* a PUT with the body {} on the id of a stored row, answered 400
C7_Witness ==
    /\ req.op = "PUT"
    /\ req.body = NoBody
    /\ RowsWithId(items, IdOf(req.id)) # {}
    /\ Len(replies) = 1
    /\ TheReply.status = 400

------------------------------------------------------------------------------
(* C8 *)

\* C8: when storage answers, DELETE /items/:id on the id of a stored row is
\* answered 200 with {message: "Item deleted successfully"} and removes that
\* row and no other; DELETE on an integer id without a row is answered 404
\* and leaves the table as it was; and from then on no row has a deleted id
\* and every GET /items/:id on a deleted id is answered 404.
C8_DeleteRemovesForGood ==
    [][/\ (Handles("DELETE") /\ ~IsNaN(ParseInt(req'.id)) /\ ~rejected'.failed)
            => LET hit == RowsWithId(items, IdOf(req'.id))
               IN  /\ Len(replies') = 1
                   /\ IF hit # {}
                      THEN /\ replies'[1].status = 200
                           /\ replies'[1].kind = "message"
                           /\ replies'[1].body = <<"Item deleted successfully">>
                           /\ Cardinality(hit) = 1
                           /\ items' = items \ hit
                      ELSE /\ replies'[1].status = 404
                           /\ items' = items
       /\ \A id \in deletedIds' : RowsWithId(items', id) = {}
       /\ (Handles("GET") /\ ~rejected'.failed /\ ~IsNaN(ParseInt(req'.id))
             /\ IdOf(req'.id) \in deletedIds)
            => replies'[1].status = 404]_vars

\* a GET on a deleted id answered 404 after a later item was created
C8_Witness ==
    /\ req.op = "GET"
    /\ IdOf(req.id) \in deletedIds
    /\ Len(replies) = 1
    /\ TheReply.status = 404
    /\ items # {}

------------------------------------------------------------------------------
(* C9 *)

\* C9: the body of a GET /items answered 200 lists every stored row and
\* nothing else, each once, in strictly ascending order of id.
C9_ListAscendingComplete ==
    (req.op = "LIST" /\ Len(replies) = 1 /\ TheReply.status = 200)
        => LET rows == TheReply.body
           IN  /\ {rows[k] : k \in 1..Len(rows)} = items
               /\ Len(rows) = Cardinality(items)
               /\ \A j, k \in 1..Len(rows) : j < k => rows[j].id < rows[k].id

\* a GET /items answered 200 with two rows
C9_Witness ==
    /\ req.op = "LIST"
    /\ Len(replies) = 1
    /\ TheReply.status = 200
    /\ Len(TheReply.body) = 2

------------------------------------------------------------------------------
(* C10 *)

\* the text each handler puts before err.message
FailureText(op) ==
    CASE op = "POST" -> "Failed to create item: "
      [] op = "LIST" -> "Failed to retrieve items: "
      [] op = "GET" -> "Failed to retrieve item: "
      [] op = "PUT" -> "Failed to update item: "
      [] op = "DELETE" -> "Failed to delete item: "

\* C10: when the pool.query call of any of the five handlers rejects, the
\* request gets exactly one reply, a 500 whose error is the handler's text
\* followed by the message of the error, pool.query was called once, the
\* process is still running and the table is as it was before the request.
C10_StorageFailureIs500 ==
    [][(req = NoReq /\ rejected'.failed)
        => /\ Len(replies') = 1
           /\ replies'[1].status = 500
           /\ replies'[1].kind = "error"
           /\ replies'[1].body = <<FailureText(req'.op), rejected'.message>>
           /\ queries' = 1
           /\ alive'
           /\ items' = items]_vars

\* a PUT on a stored row whose UPDATE was rejected
C10_Witness ==
    /\ req.op = "PUT"
    /\ rejected.failed
    /\ RowsWithId(items, IdOf(req.id)) # {}
    /\ Len(replies) = 1
    /\ TheReply.status = 500

------------------------------------------------------------------------------
(* The serverless entry point: handler(req, res) *)

\* HandlerEnter with the flag raised before ready() is awaited
HandlerEnter_flagFirst(ready) ==
    IF ~ready
    THEN [isServerReady |-> TRUE, pc |-> "awaiting", awaited |-> TRUE, emits |-> 0]
    ELSE [isServerReady |-> ready, pc |-> "done", awaited |-> FALSE, emits |-> 1]

\* the handler up to its first suspension: with the flag down it calls
\* ready() and waits; with the flag up it emits the request at once
HandlerEnter(ready) ==
    IF ~ready
    THEN [isServerReady |-> ready, pc |-> "awaiting", awaited |-> TRUE, emits |-> 0]
    ELSE [isServerReady |-> ready, pc |-> "done", awaited |-> FALSE, emits |-> 1]

\* the handler after its await: a resolved ready() raises the flag and emits
\* the request; a rejected ready() throws out of the handler
HandlerResume(ready, settled) ==
    IF settled = "ready"
    THEN [isServerReady |-> TRUE, pc |-> "done", emits |-> 1]
    ELSE [isServerReady |-> ready, pc |-> "threw", emits |-> 0]

\* the host calls handler(req, res)
Invoke(r) ==
    /\ calls[r].pc = "none"
    /\ \E h \in {HandlerEnter(isServerReady)} :
          /\ isServerReady' = h.isServerReady
          /\ calls' = [calls EXCEPT ![r] = [pc |-> h.pc, awaited |-> h.awaited]]
          /\ emitted' = [emitted EXCEPT ![r] = @ + h.emits]
    /\ UNCHANGED <<router, itemVars, puts>>

\* the promise of ready() has settled and the handler goes on
Resume(r) ==
    /\ calls[r].pc = "awaiting"
    /\ router # "loading"
    /\ \E h \in {HandlerResume(isServerReady, router)} :
          /\ isServerReady' = h.isServerReady
          /\ calls' = [calls EXCEPT ![r].pc = h.pc]
          /\ emitted' = [emitted EXCEPT ![r] = @ + h.emits]
    /\ UNCHANGED <<router, itemVars, puts>>

\* every registered plugin has loaded: ready() resolves from now on
RouterReady ==
    /\ router = "loading"
    /\ router' = "ready"
    /\ UNCHANGED <<isServerReady, calls, emitted, itemVars, puts>>

\* a plugin failed to load: ready() rejects from now on
RouterFails ==
    /\ router = "loading"
    /\ router' = "failed"
    /\ UNCHANGED <<isServerReady, calls, emitted, itemVars, puts>>

NextAdapter ==
    \/ \E r \in Requests : Invoke(r)
    \/ \E r \in Requests : Resume(r)
    \/ RouterReady
    \/ RouterFails

SpecAdapter == Init /\ [][NextAdapter]_vars

------------------------------------------------------------------------------
(* C11 *)

\* C11: however many invocations overlap, a request is emitted to the router
\* only once the router has finished loading, no request is emitted twice,
\* and every invocation that got past ready() (or found the flag already
\* raised) has emitted its request exactly once.
C11_EmitOnlyAfterReady ==
    /\ isServerReady => router = "ready"
    /\ \A r \in Requests :
          /\ emitted[r] > 0 => router = "ready"
          /\ emitted[r] <= 1
          /\ calls[r].pc = "done" <=> emitted[r] = 1

\* two invocations that both waited on ready() and one that found the flag
\* raised have each emitted their request
C11_Witness ==
    /\ \E a, b \in Requests :
          /\ a # b
          /\ calls[a].awaited /\ emitted[a] = 1
          /\ calls[b].awaited /\ emitted[b] = 1
    /\ \E c \in Requests : ~calls[c].awaited /\ emitted[c] = 1

------------------------------------------------------------------------------
(* Two PUT /items/:id handlers running side by side.  A handler runs without *)
(* interruption up to its await pool.query(...); the database then carries   *)
(* out its UPDATE as one statement at some later moment; the handler replies *)
(* once the promise has settled.                                             *)

\* path identifiers of the two requests
PutIdStrings == {<<"1">>, <<"2">>, <<"a">>}

\* tables the service can have been brought to when the two requests arrive
PutTables ==
    {{Row(1, Str("a"), d)} : d \in {Null, Str("x")}}
        \cup {{Row(1, Str("a"), Null), Row(2, Str("a"), Str("x"))}}

InitPut ==
    /\ AdapterInit
    /\ PutIdle
    /\ items \in PutTables
    /\ seq = Cardinality(items)
    /\ returnedIds = {r.id : r \in items}
    /\ deletedIds = {}
    /\ alive = TRUE
    /\ req = NoReq
    /\ replies = <<>>
    /\ queries = 0
    /\ rejected = NoFault

\* the handler from its entry to pool.query(...): a 400 reply, or the
\* statement it hands to the pool
PutEnter(idStr, body) ==
    LET id == ParseInt(idStr)
        stmt == BuildUpdate(body, id.val)
    IN  IF IsNaN(id)
        THEN [NoPut EXCEPT !.pc = "done", !.id = idStr, !.body = body,
                           !.replies = <<Reply(400, "error", <<"Invalid item ID">>)>>]
        ELSE IF Len(stmt.updates) = 0
        THEN [NoPut EXCEPT !.pc = "done", !.id = idStr, !.body = body,
                           !.replies = <<Reply(400, "error", <<"No update fields provided">>)>>]
        ELSE [NoPut EXCEPT !.pc = "querying", !.id = idStr, !.body = body, !.stmt = stmt]

\* the reply the handler sends once its query has settled
PutReply(put) ==
    IF put.rejected.failed
    THEN Reply(500, "error", <<"Failed to update item: ", put.rejected.message>>)
    ELSE IF Len(put.rows) = 0
    THEN Reply(404, "error", <<"Item not found">>)
    ELSE Reply(200, "item", put.rows[1])

PutStart(p) ==
    /\ puts[p].pc = "none"
    /\ \E idStr \in PutIdStrings, body \in Bodies :
          puts' = [puts EXCEPT ![p] = PutEnter(idStr, body)]
    /\ UNCHANGED <<itemVars, adapterVars>>

\* the database carries out the UPDATE of p, or the query is rejected
PutExecute(p) ==
    /\ puts[p].pc = "querying"
    /\ \E fault \in Faults :
          IF fault.failed
          THEN /\ puts' = [puts EXCEPT ![p].pc = "settled", ![p].rejected = fault]
               /\ items' = items
          ELSE \E result \in {DbUpdate(items, puts[p].stmt.updates,
                                       puts[p].stmt.values, puts[p].stmt.paramIndex)} :
                  /\ puts' = [puts EXCEPT ![p].pc = "settled", ![p].rows = result.rows]
                  /\ items' = result.table
    /\ UNCHANGED <<seq, alive, req, replies, queries, rejected, returnedIds, deletedIds>>
    /\ UNCHANGED adapterVars

\* the handler of p goes on after its await and replies
PutRespond(p) ==
    /\ puts[p].pc = "settled"
    /\ puts' = [puts EXCEPT ![p].pc = "done", ![p].replies = <<PutReply(puts[p])>>]
    /\ UNCHANGED <<itemVars, adapterVars>>

NextPut ==
    \/ \E p \in Putters : PutStart(p)
    \/ \E p \in Putters : PutExecute(p)
    \/ \E p \in Putters : PutRespond(p)

SpecPut == InitPut /\ [][NextPut]_vars

------------------------------------------------------------------------------
(* C12 *)

\* p supplies only a name, q only a description, both on the id of one
\* stored row, and neither statement was rejected
NameAndDescriptionRace(p, q) ==
    /\ p # q
    /\ puts[p].pc \in {"settled", "done"}
    /\ puts[q].pc \in {"settled", "done"}
    /\ puts[p].body.name # Undefined /\ puts[p].body.description = Undefined
    /\ puts[q].body.name = Undefined /\ puts[q].body.description # Undefined
    /\ IdOf(puts[p].id) = IdOf(puts[q].id)
    /\ RowsWithId(items, IdOf(puts[p].id)) # {}
    /\ ~puts[p].rejected.failed
    /\ ~puts[q].rejected.failed

\* C12: when two PUT requests on the same stored item overlap, one with only
\* a name and one with only a description, and both UPDATE statements go
\* through, then in whichever order the handlers and statements ran the row
\* holds the new name and the new description, and each request that has
\* been answered was answered 200.
C12_ConcurrentPutsKeepBoth ==
    \A p, q \in Putters :
        NameAndDescriptionRace(p, q)
            => /\ \A r \in RowsWithId(items, IdOf(puts[p].id)) :
                     /\ r.name = puts[p].body.name
                     /\ r.description = puts[q].body.description
               /\ \A h \in {p, q} :
                     puts[h].pc = "done"
                        => Len(puts[h].replies) = 1 /\ puts[h].replies[1].status = 200

\* both requests answered 200 where the UPDATE of the name ran first (its reply
\* still shows the old description) and the row ends with both new values
C12_Witness ==
    \E p, q \in Putters :
        /\ NameAndDescriptionRace(p, q)
        /\ puts[p].pc = "done" /\ puts[q].pc = "done"
        /\ puts[p].body.name = Str("")
        /\ puts[q].body.description = Str("")
        /\ puts[p].replies[1].status = 200
        /\ puts[q].replies[1].status = 200
        /\ puts[p].replies[1].body.description = Str("x")
        /\ puts[q].replies[1].body.name = Str("")

====
